---- MODULE Spec2Model ----
(***************************************************************************)
(* SpectraTales: the App component's state (story, loading, history), the  *)
(* image sequencer, the per-page retry path and the IndexedDB story store. *)
(* Modelled from the current App (src/App.tsx lines 423-674), the storage  *)
(* service (src/unnamed/part_000), the BookPreview retry buttons and the   *)
(* StoryInput form (src/components/BookPreview.tsx lines 221-574).         *)
(***************************************************************************)
EXTENDS Integers, Sequences, FiniteSets, TLC

\* ---------------------------------------------------------------- bounds
\* steps (handler runs and completions) of one behaviour
MaxSteps == 9
\* saves waiting for the store at one time
MaxQueue == 2

\* ------------------------------------------------------------ data values
\* image_url: undefined
NoImage == 0
\* error: undefined
NoError == "none"

\* the uid of "no story" (story === null)
NullUid == 0

Null ==
  [uid |-> NullUid, createdAt |-> 0, character_blueprint |-> 0,
   visual_style_guide |-> 0, pages |-> <<>>]

\* A page as the storyboard model returns it, before the image state is added.
RawPage(uid, id) ==
  [id |-> id, text |-> 10 * uid + id, action_description |-> 100 * uid + id]

Page(uid, id, img, gen, err) ==
  [id |-> id, text |-> 10 * uid + id, action_description |-> 100 * uid + id,
   image_url |-> img, is_generating |-> gen, error |-> err]

\* Stories left in the store by earlier sessions. The first is complete, the
\* second was saved while its second page was still being painted.
OldStory1 ==
  [uid |-> 1, createdAt |-> 1, character_blueprint |-> 1, visual_style_guide |-> 1,
   pages |-> << Page(1, 1, 901, FALSE, NoError), Page(1, 2, 902, FALSE, NoError) >>]

OldStory2 ==
  [uid |-> 2, createdAt |-> 2, character_blueprint |-> 2, visual_style_guide |-> 2,
   pages |-> << Page(2, 1, 903, FALSE, NoError), Page(2, 2, NoImage, TRUE, NoError) >>]

\* The store's contents when the app is mounted (records in key order).
InitialStores == { <<>>, <<OldStory1>>, <<OldStory1, OldStory2>> }

\* Page id lists the storyboard model may return ("id": number, unique per page).
PageIdLists == { <<1, 2, 3>>, <<1, 2, 4>> }

\* uids of the stories generated in this session (fresh, after the stored ones)
NewUids == (OldStory2.uid + 1)..(OldStory2.uid + MaxSteps)

\* ------------------------------------------------------------- sequences
RECURSIVE SeqToSet(_)
SeqToSet(s) == IF s = <<>> THEN {} ELSE {Head(s)} \cup SeqToSet(Tail(s))

\* pages.find(p => p.id === id): index of the first match, 0 when none
FindPage(pages, id) ==
  IF \E i \in 1..Len(pages) : pages[i].id = id
  THEN CHOOSE i \in 1..Len(pages) :
         /\ pages[i].id = id
         /\ \A j \in 1..(i - 1) : pages[j].id # id
  ELSE 0

\* ------------------------------------------------- storage service (store)
\* The object store has keyPath 'uid': records are held in key order, one per key.
RECURSIVE InsertByKey(_, _)
InsertByKey(store, story) ==
  IF store = <<>> THEN <<story>>
  ELSE IF story.uid < Head(store).uid THEN <<story>> \o store
  ELSE <<Head(store)>> \o InsertByKey(Tail(store), story)

\* store.put(story) with a record whose key is taken: that record is replaced.
PutAppend(store, story) == Append(store, story)

Put(store, story) ==
  InsertByKey(SelectSeq(store, LAMBDA r : r.uid # story.uid), story)

\* store.getAll(): every record, in key order
GetAll(store) == store

\* results.sort((a, b) => b.createdAt - a.createdAt): a stable sort, so a record
\* goes after the records that are at least as new.
RECURSIVE InsertNewestFirst(_, _)
InsertNewestFirst(sorted, r) ==
  IF sorted = <<>> THEN <<r>>
  ELSE IF Head(sorted).createdAt - r.createdAt < 0 THEN <<r>> \o sorted
  ELSE <<Head(sorted)>> \o InsertNewestFirst(Tail(sorted), r)

RECURSIVE SortFrom(_, _)
SortFrom(sorted, rest) ==
  IF rest = <<>> THEN sorted
  ELSE SortFrom(InsertNewestFirst(sorted, Head(rest)), Tail(rest))

SortOldestFirst(results) == results

SortNewestFirst(results) == SortFrom(<<>>, results)

\* ------------------------------------------------ App: persistence effect
UpdateHistoryAppend(prev, s) ==
  IF \E i \in 1..Len(prev) : prev[i].uid = s.uid
  THEN [i \in 1..Len(prev) |-> IF prev[i].uid = s.uid THEN s ELSE prev[i]]
  ELSE Append(prev, s)

\* setHistory(prev => exists ? prev.map(...) : [story, ...prev])
UpdateHistory(prev, s) ==
  IF \E i \in 1..Len(prev) : prev[i].uid = s.uid
  THEN [i \in 1..Len(prev) |-> IF prev[i].uid = s.uid THEN s ELSE prev[i]]
  ELSE <<s>> \o prev

\* ------------------------------------------------------ App: page updates
PagesWithStateNotGenerating(pages) ==
  [i \in 1..Len(pages) |->
     [id |-> pages[i].id, text |-> pages[i].text,
      action_description |-> pages[i].action_description,
      image_url |-> NoImage, is_generating |-> FALSE, error |-> NoError]]

\* storyboard.pages.map(p => ({...p, is_generating: true, image_url: undefined,
\* error: undefined}))
PagesWithState(pages) ==
  [i \in 1..Len(pages) |->
     [id |-> pages[i].id, text |-> pages[i].text,
      action_description |-> pages[i].action_description,
      image_url |-> NoImage, is_generating |-> TRUE, error |-> NoError]]

SeqSuccessPagesFromSnapshot(pages, pageId, imageUrl) ==
  [i \in 1..Len(pages) |->
     IF pages[i].id = pageId
     THEN [pages[i] EXCEPT !.image_url = imageUrl, !.is_generating = FALSE]
     ELSE [pages[i] EXCEPT !.image_url = NoImage, !.is_generating = TRUE,
                           !.error = NoError]]

\* p.id === page.id ? {...p, image_url: imageUrl, is_generating: false} : p
SeqSuccessPages(pages, pageId, imageUrl) ==
  [i \in 1..Len(pages) |->
     IF pages[i].id = pageId
     THEN [pages[i] EXCEPT !.image_url = imageUrl, !.is_generating = FALSE]
     ELSE pages[i]]

SeqFailurePagesAll(pages, pageId) ==
  [i \in 1..Len(pages) |->
     IF pages[i].is_generating
     THEN [pages[i] EXCEPT !.is_generating = FALSE, !.error = "Failed to load image"]
     ELSE pages[i]]

\* p.id === page.id ? {...p, is_generating: false, error: "Failed to load image"} : p
SeqFailurePages(pages, pageId) ==
  [i \in 1..Len(pages) |->
     IF pages[i].id = pageId
     THEN [pages[i] EXCEPT !.is_generating = FALSE, !.error = "Failed to load image"]
     ELSE pages[i]]

RetryLoadingPagesKeepError(pages, pageId) ==
  [i \in 1..Len(pages) |->
     IF pages[i].id = pageId
     THEN [pages[i] EXCEPT !.is_generating = TRUE]
     ELSE pages[i]]

\* p.id === pageId ? {...p, is_generating: true, error: undefined} : p
RetryLoadingPages(pages, pageId) ==
  [i \in 1..Len(pages) |->
     IF pages[i].id = pageId
     THEN [pages[i] EXCEPT !.is_generating = TRUE, !.error = NoError]
     ELSE pages[i]]

\* p.id === pageId ? {...p, image_url: imageUrl, is_generating: false} : p
RetrySuccessPages(pages, pageId, imageUrl) ==
  [i \in 1..Len(pages) |->
     IF pages[i].id = pageId
     THEN [pages[i] EXCEPT !.image_url = imageUrl, !.is_generating = FALSE]
     ELSE pages[i]]

RetryFailurePagesLosesText(pages, pageId) ==
  [i \in 1..Len(pages) |->
     IF pages[i].id = pageId
     THEN [pages[i] EXCEPT !.is_generating = FALSE, !.error = "Retry failed",
                           !.text = 0, !.action_description = 0]
     ELSE pages[i]]

\* p.id === pageId ? {...p, is_generating: false, error: "Retry failed"} : p
RetryFailurePages(pages, pageId) ==
  [i \in 1..Len(pages) |->
     IF pages[i].id = pageId
     THEN [pages[i] EXCEPT !.is_generating = FALSE, !.error = "Retry failed"]
     ELSE pages[i]]

SeqGuardAnyStory(prev, initialUid) == prev # Null

\* the guard of the sequencer's updates: !(!prev || prev.uid !== initialStory.uid)
SeqGuard(prev, initialUid) == prev # Null /\ prev.uid = initialUid

\* ---------------------------------------------------- reference building
\* generatedImagesMap: a Map from page id to image
EmptyMap == [k \in {} |-> NoImage]

MapHas(m, k) == k \in DOMAIN m

MapSet(m, k, v) == [x \in (DOMAIN m) \cup {k} |-> IF x = k THEN v ELSE m[x]]

\* initialStory.pages[0]?.id (-1 stands for undefined)
FirstPageId(pages) == IF Len(pages) > 0 THEN pages[1].id ELSE -1

SeqRefsRepeatsAnchor(pages, pageId, map) ==
  (IF FirstPageId(pages) # -1 /\ MapHas(map, FirstPageId(pages))
      /\ pageId # FirstPageId(pages)
   THEN <<map[FirstPageId(pages)]>> ELSE <<>>)
  \o
  (IF MapHas(map, pageId - 1) THEN <<map[pageId - 1]>> ELSE <<>>)

\* generateImagesSequence: the reference array of the request for page pageId
SeqRefs(pages, pageId, map) ==
  (IF FirstPageId(pages) # -1 /\ MapHas(map, FirstPageId(pages))
      /\ pageId # FirstPageId(pages)
   THEN <<map[FirstPageId(pages)]>> ELSE <<>>)
  \o
  (IF MapHas(map, pageId - 1) /\ pageId - 1 # FirstPageId(pages)
   THEN <<map[pageId - 1]>> ELSE <<>>)

\* handleRegenerateImage: the references collected from the rendered story
RetryRefs(pages, pageId) ==
  (IF Len(pages) > 0 /\ pages[1].image_url # NoImage /\ pages[1].id # pageId
   THEN <<pages[1].image_url>> ELSE <<>>)
  \o
  (IF FindPage(pages, pageId - 1) # 0
      /\ pages[FindPage(pages, pageId - 1)].image_url # NoImage
      /\ pageId - 1 # FirstPageId(pages)
   THEN <<pages[FindPage(pages, pageId - 1)].image_url>> ELSE <<>>)

\* BookPreview: the page shows one of its three retry buttons
CanRetry(p) ==
  \/ p.image_url = NoImage /\ p.is_generating
  \/ p.image_url = NoImage /\ ~p.is_generating /\ p.error # NoError
  \/ p.image_url # NoImage /\ ~p.is_generating

\* ------------------------------------------------------------- StoryInput
\* A text is a sequence of characters. Whitespace is what String.prototype.trim strips.
Whitespace == {" "}

\* e.target.value of the textarea: empty, blank, or a word with or without a blank
\* before or after it
Texts == { <<>>, <<" ">>, <<"a">>, <<" ", "a">>, <<"a", " ">> }

RECURSIVE TrimStart(_)
TrimStart(s) ==
  IF s # <<>> /\ Head(s) \in Whitespace THEN TrimStart(Tail(s)) ELSE s

RECURSIVE TrimEnd(_)
TrimEnd(s) ==
  IF s # <<>> /\ s[Len(s)] \in Whitespace THEN TrimEnd(SubSeq(s, 1, Len(s) - 1)) ELSE s

TrimNothing(s) == s

\* text.trim()
Trim(s) == TrimEnd(TrimStart(s))

\* TEMPLATES, each text cut to its first two characters
TEMPLATES ==
  << [id |-> "sharing", text |-> <<"T", "i">>],
     [id |-> "calm_down", text |-> <<"T", "h">>],
     [id |-> "greeting", text |-> <<"A", "l">>] >>

\* SHOWCASE_EXAMPLES, each text cut to its first two characters
SHOWCASE_EXAMPLES ==
  << [text |-> <<"T", "o">>, complexity |-> "Balanced"],
     [text |-> <<"S", "a">>, complexity |-> "Rich"],
     [text |-> <<"S", "o">>, complexity |-> "Minimal"],
     [text |-> <<"T", "h">>, complexity |-> "Balanced"],
     [text |-> <<"I", " ">>, complexity |-> "Balanced"],
     [text |-> <<"M", "y">>, complexity |-> "Minimal"] >>

VisualComplexity == {"Minimal", "Balanced", "Rich"}

StoryMode == {"Custom", "Template"}

Gender == {"boy", "girl"}

\* onGenerate has not been called
NoCall == [text |-> <<>>, complexity |-> "none", gender |-> "none"]

\* ------------------------------------------------------------------ state
VARIABLES
  story,        \* useState story (Null is null)
  loading,      \* useState loading
  history,      \* useState history
  db,           \* the 'stories' object store, records in key order
  dbQueue,      \* saveStoryToDB calls whose put has not run yet, oldest first
  loadState,    \* the mount effect's getHistoryFromDB: pending, ok, failed, error
  saved,        \* what getHistoryFromDB returned
  sbPending,    \* a generateStoryboard call is awaiting the text model
  generated,    \* storyboards returned so far in this session
  seqs,         \* generateImagesSequence runs, by the uid of their initialStory
  retries,      \* handleRegenerateImage calls awaiting their image
  retryLog,     \* the generatePageImage calls made by handleRegenerateImage, in order
  outstanding,  \* generatePageImage calls not yet resolved or rejected
  steps,        \* steps taken so far
  mode,             \* StoryInput: useState mode
  customText,       \* StoryInput: useState customText
  selectedTemplate, \* StoryInput: useState selectedTemplate
  complexity,       \* StoryInput: useState complexity
  gender,           \* StoryInput: useState gender
  onGenerateArgs    \* the arguments of the last onGenerate call

\* StoryInput's own state
inputVars == << mode, customText, selectedTemplate, complexity, gender >>

vars ==
  << story, loading, history, db, dbQueue, loadState, saved, sbPending, generated,
     seqs, retries, retryLog, outstanding, steps, inputVars, onGenerateArgs >>

\* generatePageImage(description, styleConfig, refs) is called; img names the call
\* and is the image it returns if it succeeds.
ImageRequest(uid, pageId, desc, refs, img) ==
  [uid |-> uid, pageId |-> pageId, desc |-> desc, refs |-> refs, img |-> img]

\* The image the sequencer's request for a page returns, and the one a retry returns:
\* every call returns an image of its own.
SeqImage(uid, pageId) == 10 * uid + pageId

RetryImage(k) == 200 + k

IdleSeq ==
  [status |-> "idle", initialStory |-> Null, idx |-> 0,
   generatedImagesMap |-> EmptyMap, sent |-> <<>>]

Init ==
  /\ story = Null
  /\ loading = FALSE
  /\ history = <<>>
  /\ db \in InitialStores
  /\ dbQueue = <<>>
  /\ loadState = "pending"
  /\ saved = <<>>
  /\ sbPending = FALSE
  /\ generated = 0
  /\ seqs = [u \in NewUids |-> IdleSeq]
  /\ retries = {}
  /\ retryLog = <<>>
  /\ outstanding = {}
  /\ steps = 0
  /\ mode = "Template"
  /\ customText = <<>>
  /\ selectedTemplate = TEMPLATES[1]
  /\ complexity = "Balanced"
  /\ gender = "boy"
  /\ onGenerateArgs = NoCall

\* One more step of the behaviour.
Tick == steps < MaxSteps /\ steps' = steps + 1

\* ------------------------------------------------------- setStory + effect
\* The persistence effect can queue its save.
CanSave == Len(dbQueue) < MaxQueue

\* setStory(s) with s a new object, followed by the persistence effect:
\* saveStoryToDB(story) is issued and the history list is updated.
Commit(s) ==
  /\ story' = s
  /\ IF s # Null
     THEN /\ dbQueue' = Append(dbQueue, s)
          /\ history' = UpdateHistory(history, s)
     ELSE UNCHANGED << dbQueue, history >>

\* -------------------------------------------------------- handleGenerateStory
\* The submit button: disabled={isLoading || (mode === CUSTOM && !customText.trim())}
SubmitDisabled == loading \/ (mode = "Custom" /\ Trim(customText) = <<>>)

\* The submit button of StoryInput (shown while no story is) is clicked: handleSubmit
\* takes the text of the active mode, returns if it is blank, and calls onGenerate,
\* which is handleGenerateStory up to its await.
Submit ==
  /\ Tick
  /\ story = Null
  /\ ~SubmitDisabled
  /\ LET text == IF mode = "Custom" THEN customText ELSE selectedTemplate.text
     IN IF Trim(text) = <<>>
        THEN UNCHANGED << loading, sbPending, onGenerateArgs >>
        ELSE /\ onGenerateArgs' = [text |-> text, complexity |-> complexity,
                                   gender |-> gender]
             /\ loading' = TRUE
             /\ sbPending' = TRUE
  /\ UNCHANGED inputVars
  /\ UNCHANGED << story, history, db, dbQueue, loadState, saved, generated, seqs,
                  retries, retryLog, outstanding >>

\* generateImagesSequence up to its first await: the first page's request is made.
SeqStart(initialStory) ==
  LET pages == initialStory.pages
      req   == ImageRequest(initialStory.uid, pages[1].id, pages[1].action_description,
                            SeqRefs(pages, pages[1].id, EmptyMap),
                            SeqImage(initialStory.uid, pages[1].id))
  IN /\ seqs' = [seqs EXCEPT ![initialStory.uid] =
                   [status |-> "awaiting", initialStory |-> initialStory, idx |-> 1,
                    generatedImagesMap |-> EmptyMap, sent |-> <<req>>]]
     /\ outstanding' = outstanding \cup {req.img}

\* generateStoryboard resolved: uid and createdAt are injected, the image states
\* initialised, the story shown, and generateImagesSequence started.
StoryboardOk(ids) ==
  /\ Tick
  /\ sbPending
  /\ CanSave
  /\ LET uid == OldStory2.uid + generated + 1
         fullStory ==
           [uid |-> uid, createdAt |-> OldStory2.createdAt + generated + 1,
            character_blueprint |-> uid, visual_style_guide |-> uid,
            pages |-> PagesWithState([i \in 1..Len(ids) |-> RawPage(uid, ids[i])])]
     IN /\ Commit(fullStory)
        /\ SeqStart(fullStory)
  /\ loading' = FALSE
  /\ sbPending' = FALSE
  /\ generated' = generated + 1
  /\ UNCHANGED << inputVars, onGenerateArgs >>
  /\ UNCHANGED << db, loadState, saved, retries, retryLog >>

StoryboardFailKeepsLoading ==
  /\ Tick
  /\ sbPending
  /\ sbPending' = FALSE
  /\ UNCHANGED << inputVars, onGenerateArgs >>
  /\ UNCHANGED << story, loading, history, db, dbQueue, loadState, saved, generated,
                  seqs, retries, retryLog, outstanding >>

\* generateStoryboard threw: alert, setLoading(false)
StoryboardFail ==
  /\ Tick
  /\ sbPending
  /\ loading' = FALSE
  /\ sbPending' = FALSE
  /\ UNCHANGED << inputVars, onGenerateArgs >>
  /\ UNCHANGED << story, history, db, dbQueue, loadState, saved, generated, seqs,
                  retries, retryLog, outstanding >>

\* ------------------------------------------------------ generateImagesSequence
SeqNextIndexBreakOnError(sq, ok) ==
  IF ok THEN sq.idx + 1 ELSE Len(sq.initialStory.pages) + 1

\* the for-of loop goes on to the next page, after a success and after a catch
SeqNextIndex(sq, ok) == sq.idx + 1

\* The request the loop is awaiting.
SeqAwaited(sq) == sq.sent[Len(sq.sent)]

\* The loop continues to its next await (or ends): the next request is built from
\* the map as it now is.
SeqContinue(u, sq, map, ok) ==
  LET next  == SeqNextIndex(sq, ok)
      pages == sq.initialStory.pages
  IN IF next <= Len(pages)
     THEN LET req == ImageRequest(u, pages[next].id, pages[next].action_description,
                                  SeqRefs(pages, pages[next].id, map),
                                  SeqImage(u, pages[next].id))
          IN /\ seqs' = [seqs EXCEPT ![u] =
                           [sq EXCEPT !.idx = next, !.generatedImagesMap = map,
                                      !.sent = Append(sq.sent, req)]]
             /\ outstanding' = (outstanding \ {SeqAwaited(sq).img}) \cup {req.img}
     ELSE /\ seqs' = [seqs EXCEPT ![u] =
                        [sq EXCEPT !.status = "done", !.idx = next,
                                   !.generatedImagesMap = map]]
          /\ outstanding' = outstanding \ {SeqAwaited(sq).img}

\* The awaited generatePageImage resolved with an image.
SeqImageOk(u) ==
  /\ Tick
  /\ seqs[u].status = "awaiting"
  /\ LET sq       == seqs[u]
         page     == sq.initialStory.pages[sq.idx]
         imageUrl == SeqAwaited(sq).img
     IN /\ IF SeqGuard(story, sq.initialStory.uid)
           THEN CanSave /\ Commit([story EXCEPT !.pages = SeqSuccessPages(story.pages, page.id, imageUrl)])
           ELSE UNCHANGED << story, history, dbQueue >>
        /\ SeqContinue(u, sq, MapSet(sq.generatedImagesMap, page.id, imageUrl), TRUE)
  /\ UNCHANGED << inputVars, onGenerateArgs >>
  /\ UNCHANGED << loading, db, loadState, saved, sbPending, generated, retries, retryLog >>

\* The awaited generatePageImage threw.
SeqImageFail(u) ==
  /\ Tick
  /\ seqs[u].status = "awaiting"
  /\ LET sq   == seqs[u]
         page == sq.initialStory.pages[sq.idx]
     IN /\ IF SeqGuard(story, sq.initialStory.uid)
           THEN CanSave /\ Commit([story EXCEPT !.pages = SeqFailurePages(story.pages, page.id)])
           ELSE UNCHANGED << story, history, dbQueue >>
        /\ SeqContinue(u, sq, sq.generatedImagesMap, FALSE)
  /\ UNCHANGED << inputVars, onGenerateArgs >>
  /\ UNCHANGED << loading, db, loadState, saved, sbPending, generated, retries, retryLog >>

\* ------------------------------------------------------ handleRegenerateImage
\* A retry button of the displayed page pageId is clicked: the page is marked as
\* loading, the references are collected from the rendered story and the image asked for.
Regenerate(pageId) ==
  /\ Tick
  /\ story # Null
  /\ CanSave
  /\ FindPage(story.pages, pageId) # 0
  /\ CanRetry(story.pages[FindPage(story.pages, pageId)])
  /\ LET page == story.pages[FindPage(story.pages, pageId)]
         req  == ImageRequest(story.uid, pageId, page.action_description,
                              RetryRefs(story.pages, pageId),
                              RetryImage(Len(retryLog) + 1))
     IN /\ Commit([story EXCEPT !.pages = RetryLoadingPages(story.pages, pageId)])
        /\ retryLog' = Append(retryLog, req)
        /\ outstanding' = outstanding \cup {req.img}
        /\ retries' = retries \cup {req}
  /\ UNCHANGED << inputVars, onGenerateArgs >>
  /\ UNCHANGED << loading, db, loadState, saved, sbPending, generated, seqs >>

\* The retry's generatePageImage resolved: setStory(prev => !prev ? null : {...})
RetryOk(r) ==
  /\ Tick
  /\ r \in retries
  /\ IF story # Null
     THEN CanSave /\ Commit([story EXCEPT !.pages = RetrySuccessPages(story.pages, r.pageId, r.img)])
     ELSE UNCHANGED << story, history, dbQueue >>
  /\ retries' = retries \ {r}
  /\ outstanding' = outstanding \ {r.img}
  /\ UNCHANGED << inputVars, onGenerateArgs >>
  /\ UNCHANGED << loading, db, loadState, saved, sbPending, generated, seqs, retryLog >>

\* The retry's generatePageImage threw.
RetryFail(r) ==
  /\ Tick
  /\ r \in retries
  /\ IF story # Null
     THEN CanSave /\ Commit([story EXCEPT !.pages = RetryFailurePages(story.pages, r.pageId)])
     ELSE UNCHANGED << story, history, dbQueue >>
  /\ retries' = retries \ {r}
  /\ outstanding' = outstanding \ {r.img}
  /\ UNCHANGED << inputVars, onGenerateArgs >>
  /\ UNCHANGED << loading, db, loadState, saved, sbPending, generated, seqs, retryLog >>

\* ------------------------------------------------------------- navigation
\* BookPreview's "Make Another Story": onReset={() => setStory(null)}
Reset ==
  /\ Tick
  /\ story # Null
  /\ story' = Null
  /\ UNCHANGED << inputVars, onGenerateArgs >>
  /\ UNCHANGED << loading, history, db, dbQueue, loadState, saved, sbPending, generated,
                  seqs, retries, retryLog, outstanding >>

\* A card of the history list is clicked (StoryInput is shown while no story is).
SelectHistory(i) ==
  /\ Tick
  /\ story = Null
  /\ i \in 1..Len(history)
  /\ CanSave
  /\ Commit(history[i])
  /\ UNCHANGED << inputVars, onGenerateArgs >>
  /\ UNCHANGED << loading, db, loadState, saved, sbPending, generated, seqs, retries,
                  retryLog, outstanding >>

\* ------------------------------------------------------------ the store
\* getHistoryFromDB: getAll succeeded, the results are sorted and returned, and
\* loadHistory sets them as the history.
LoadHistoryOk ==
  /\ Tick
  /\ loadState = "pending"
  /\ saved' = SortNewestFirst(GetAll(db))
  /\ history' = saved'
  /\ loadState' = "ok"
  /\ UNCHANGED << inputVars, onGenerateArgs >>
  /\ UNCHANGED << story, loading, db, dbQueue, sbPending, generated, seqs, retries,
                  retryLog, outstanding >>

\* getHistoryFromDB: initDB rejected, the catch returns [] and loadHistory sets it.
LoadHistoryOpenFailed ==
  /\ Tick
  /\ loadState = "pending"
  /\ saved' = <<>>
  /\ history' = <<>>
  /\ loadState' = "failed"
  /\ UNCHANGED << inputVars, onGenerateArgs >>
  /\ UNCHANGED << story, loading, db, dbQueue, sbPending, generated, seqs, retries,
                  retryLog, outstanding >>

\* getHistoryFromDB: the getAll request failed; the promise returned inside the try
\* rejects past the catch, so loadHistory never sets the history.
LoadHistoryError ==
  /\ Tick
  /\ loadState = "pending"
  /\ loadState' = "error"
  /\ UNCHANGED << inputVars, onGenerateArgs >>
  /\ UNCHANGED << story, loading, history, db, dbQueue, saved, sbPending, generated,
                  seqs, retries, retryLog, outstanding >>

\* The store serves its requests in the order their connections were asked for:
\* the mount effect's getAll comes before every save.
StoreReady == loadState # "pending"

\* saveStoryToDB: store.put(story) succeeded
SaveOk ==
  /\ Tick
  /\ dbQueue # <<>>
  /\ StoreReady
  /\ db' = Put(db, Head(dbQueue))
  /\ dbQueue' = Tail(dbQueue)
  /\ UNCHANGED << inputVars, onGenerateArgs >>
  /\ UNCHANGED << story, loading, history, loadState, saved, sbPending, generated, seqs,
                  retries, retryLog, outstanding >>

\* saveStoryToDB rejected (initDB or the put failed); the caller logs "Auto-save failed"
SaveFailed ==
  /\ Tick
  /\ dbQueue # <<>>
  /\ StoreReady
  /\ dbQueue' = Tail(dbQueue)
  /\ UNCHANGED << inputVars, onGenerateArgs >>
  /\ UNCHANGED << story, loading, history, db, loadState, saved, sbPending, generated,
                  seqs, retries, retryLog, outstanding >>

\* ------------------------------------------------------------ specification
Next ==
  \/ Submit
  \/ \E ids \in PageIdLists : StoryboardOk(ids)
  \/ StoryboardFail
  \/ \E u \in NewUids : SeqImageOk(u)
  \/ \E u \in NewUids : SeqImageFail(u)
  \/ \E pageId \in 1..4 : Regenerate(pageId)
  \/ \E r \in retries : RetryOk(r)
  \/ \E r \in retries : RetryFail(r)
  \/ Reset
  \/ \E i \in 1..Len(history) : SelectHistory(i)
  \/ LoadHistoryOk
  \/ LoadHistoryOpenFailed
  \/ LoadHistoryError
  \/ SaveOk
  \/ SaveFailed

Spec == Init /\ [][Next]_vars

\* Every call the app awaits comes back: an image request resolves or rejects, the
\* storyboard call returns, and the store answers the load and the queued saves.
\* What the user does (submit, retry, reset, select) is left free.
LiveSpec ==
  /\ Spec
  /\ WF_vars(\E u \in NewUids : SeqImageOk(u) \/ SeqImageFail(u))
  /\ WF_vars(\E r \in retries : RetryOk(r) \/ RetryFail(r))
  /\ WF_vars(\E ids \in PageIdLists : StoryboardOk(ids) \/ StoryboardFail)
  /\ WF_vars(LoadHistoryOk \/ LoadHistoryOpenFailed \/ LoadHistoryError)
  /\ WF_vars(SaveOk \/ SaveFailed)

\* ---------------------------------------------------------- the story form
\* Everything but StoryInput's own state.
appVars ==
  << story, loading, history, db, dbQueue, loadState, saved, sbPending, generated,
     seqs, retries, retryLog, outstanding, steps, onGenerateArgs >>

\* one of the two mode cards is clicked
HandleModeChange(newMode) ==
  /\ story = Null
  /\ mode' = newMode
  /\ UNCHANGED << customText, selectedTemplate, complexity, gender >>
  /\ UNCHANGED appVars

\* a template card (shown in template mode) is clicked
SetSelectedTemplate(t) ==
  /\ story = Null
  /\ mode = "Template"
  /\ selectedTemplate' = t
  /\ UNCHANGED << mode, customText, complexity, gender >>
  /\ UNCHANGED appVars

\* the textarea (shown in custom mode) changes
SetCustomText(value) ==
  /\ story = Null
  /\ mode = "Custom"
  /\ customText' = value
  /\ UNCHANGED << mode, selectedTemplate, complexity, gender >>
  /\ UNCHANGED appVars

SetGender(g) ==
  /\ story = Null
  /\ gender' = g
  /\ UNCHANGED << mode, customText, selectedTemplate, complexity >>
  /\ UNCHANGED appVars

SetComplexity(level) ==
  /\ story = Null
  /\ complexity' = level
  /\ UNCHANGED << mode, customText, selectedTemplate, gender >>
  /\ UNCHANGED appVars

\* a showcase card is clicked
HandleLoadShowcase(example) ==
  /\ story = Null
  /\ mode' = "Custom"
  /\ customText' = example.text
  /\ complexity' = example.complexity
  /\ UNCHANGED << selectedTemplate, gender >>
  /\ UNCHANGED appVars

\* The input screen: the form is edited and submitted; the storyboard call fails, so
\* the form stays on screen with the state the user gave it.
FormNext ==
  \/ \E newMode \in StoryMode : HandleModeChange(newMode)
  \/ \E i \in 1..Len(TEMPLATES) : SetSelectedTemplate(TEMPLATES[i])
  \/ \E value \in Texts : SetCustomText(value)
  \/ \E g \in Gender : SetGender(g)
  \/ \E level \in VisualComplexity : SetComplexity(level)
  \/ \E i \in 1..Len(SHOWCASE_EXAMPLES) : HandleLoadShowcase(SHOWCASE_EXAMPLES[i])
  \/ Submit
  \/ StoryboardFail

FormInit == Init /\ db = <<>>

FormSpec == FormInit /\ [][FormNext]_vars

\* ================================================================== claims
\* A result of the sequencer run u arrives in this step: a rejection leaves the
\* run's image map as it was, a resolution adds the page's image to it.
SeqResultStep(u) == seqs[u].status = "awaiting" /\ seqs'[u] # seqs[u]

SeqFailStep(u) ==
  SeqResultStep(u) /\ seqs'[u].generatedImagesMap = seqs[u].generatedImagesMap

\* ---- C1
\* C1: each sequencer run has asked for the images of a prefix of its story's page
\* list, one request per page and in list order; a finished run has asked for every
\* page; and only the request made last can be outstanding, so a run never has two
\* requests outstanding and asks for a page only once the request before it has
\* resolved or failed.
C1_OneRequestPerPageInOrder ==
  \A u \in NewUids :
    LET sq    == seqs[u]
        pages == sq.initialStory.pages
    IN sq.status # "idle" =>
         /\ Len(sq.sent) <= Len(pages)
         /\ \A k \in 1..Len(sq.sent) : sq.sent[k].pageId = pages[k].id
         /\ sq.status = "done" => Len(sq.sent) = Len(pages)
         /\ sq.status = "awaiting" => Len(sq.sent) >= 1
         /\ \A k \in 1..Len(sq.sent) :
              sq.sent[k].img \in outstanding =>
                k = Len(sq.sent) /\ sq.status = "awaiting"

\* a run went through its whole story, one of its requests having failed
C1_Witness ==
  \E u \in NewUids :
    /\ seqs[u].status = "done"
    /\ Len(seqs[u].sent) = 3
    /\ Cardinality(DOMAIN seqs[u].generatedImagesMap) = 2

\* ---- C2
\* The references the claim names for the k-th page of the list: the image generated
\* for the first page and the image generated for the (k-1)-th page of the list
\* (the latter only when that page is not the first), each if it was generated.
RefsByListPosition(sq, k) ==
  LET pages == sq.initialStory.pages
      m     == sq.generatedImagesMap
  IN (IF MapHas(m, pages[1].id) THEN <<m[pages[1].id]>> ELSE <<>>)
     \o
     (IF k > 2 /\ MapHas(m, pages[k - 1].id) THEN <<m[pages[k - 1].id]>> ELSE <<>>)

\* C2: the request for every page after the first carries the first page's generated
\* image and the generated image of the page just before it in the page list (one
\* reference when that page is the first page).
C2_RefsAreFirstAndPrecedingInList ==
  \A u \in NewUids :
    \A k \in 2..Len(seqs[u].sent) :
      seqs[u].sent[k].refs = RefsByListPosition(seqs[u], k)

\* ---- C3
\* C3: when a sequencer request fails, the displayed story (if it is the run's story)
\* changes in that page alone, which gets is_generating false and the error and keeps
\* its image field; a story of another uid, or none, is left as it is; and the run goes
\* on: it asks for the next page of the list, or is done after the last.
C3_FailureMarksOnlyThatPage ==
  [][ \A u \in NewUids :
        SeqFailStep(u) =>
          LET sq    == seqs[u]
              pages == sq.initialStory.pages
              pid   == sq.sent[Len(sq.sent)].pageId
          IN /\ IF story # Null /\ story.uid = u
                THEN /\ story'.uid = u
                     /\ Len(story'.pages) = Len(story.pages)
                     /\ \A i \in 1..Len(story.pages) :
                          IF story.pages[i].id = pid
                          THEN /\ story'.pages[i].is_generating = FALSE
                               /\ story'.pages[i].error = "Failed to load image"
                               /\ story'.pages[i].image_url = story.pages[i].image_url
                               /\ story'.pages[i].id = pid
                          ELSE story'.pages[i] = story.pages[i]
                ELSE story' = story
             /\ IF sq.idx < Len(pages)
                THEN /\ seqs'[u].status = "awaiting"
                     /\ Len(seqs'[u].sent) = Len(sq.sent) + 1
                     /\ seqs'[u].sent[Len(sq.sent) + 1].pageId = pages[sq.idx + 1].id
                     /\ seqs'[u].sent[Len(sq.sent) + 1].img \in outstanding'
                ELSE seqs'[u].status = "done" ]_vars

\* the first page of the displayed story failed, the others are still marked as
\* generating, and the run is waiting for a later page
C3_Witness ==
  \E u \in NewUids :
    /\ story.uid = u
    /\ story.pages[1].error = "Failed to load image"
    /\ ~story.pages[1].is_generating
    /\ story.pages[1].image_url = NoImage
    /\ story.pages[2].is_generating /\ story.pages[2].error = NoError
    /\ story.pages[3].is_generating /\ story.pages[3].error = NoError
    /\ seqs[u].status = "awaiting"
    /\ seqs[u].idx = 2

\* ---- C4
UidCount(store, uid) == Cardinality({i \in 1..Len(store) : store[i].uid = uid})

\* C4: the store never holds two records of one uid; a save that succeeds leaves the
\* saved story as the one record of its uid and the records of every other uid as
\* they were; and nothing but a successful save changes the store.
C4_StoreKeyedByUid ==
  [][ /\ \A i \in 1..Len(db') : UidCount(db', db'[i].uid) = 1
      /\ SaveOk =>
           LET s == Head(dbQueue)
           IN /\ \E i \in 1..Len(db') : db'[i] = s
              /\ UidCount(db', s.uid) = 1
              /\ \A r \in SeqToSet(db) : r.uid # s.uid => r \in SeqToSet(db')
              /\ \A r \in SeqToSet(db') : r.uid # s.uid => r \in SeqToSet(db)
      /\ ~SaveOk => db' = db ]_vars

\* the store holds the stories of earlier sessions next to a story of this session,
\* whose record was replaced by a later save (its first save has every page generating)
C4_Witness ==
  /\ Len(db) = 3
  /\ db[1] = OldStory1
  /\ db[3].uid \in NewUids
  /\ ~db[3].pages[1].is_generating

\* ---- C5
\* C5: what getHistoryFromDB returns holds every record of the store, each once, and
\* is ordered by createdAt from newest to oldest.
C5_HistoryFromDBNewestFirst ==
  [][ (loadState = "pending" /\ loadState' = "ok") =>
        /\ Len(saved') = Len(db)
        /\ \A r \in SeqToSet(db) :
             Cardinality({i \in 1..Len(saved') : saved'[i] = r}) = 1
        /\ \A i, j \in 1..Len(saved') :
             i < j => saved'[i].createdAt >= saved'[j].createdAt ]_vars

\* the load returned the two stored stories, the newer one first
C5_Witness ==
  /\ loadState = "ok"
  /\ saved = <<OldStory2, OldStory1>>

\* ---- C6
\* C6: the history list is ordered by createdAt, newest first, in every state.
C6_HistoryNewestFirst ==
  \A i, j \in 1..Len(history) :
    i < j => history[i].createdAt >= history[j].createdAt

\* the loaded history of two stories, with a story generated since in front of them,
\* one of its pages already painted and another retried
C6_Witness ==
  /\ loadState = "ok"
  /\ Len(history) = 3
  /\ history[1].uid \in NewUids
  /\ history[1].pages[1].image_url # NoImage
  /\ Len(retryLog) > 0

\* ---- C7
\* C7: whenever a story is displayed, the history has an entry of its uid and that
\* entry is the displayed story.
C7_DisplayedStoryInHistory ==
  story # Null =>
    \E i \in 1..Len(history) : history[i].uid = story.uid /\ history[i] = story

\* ---- C8
\* The click on a retry button of page pageId of the displayed story: one image
\* request is made, and the page is marked as generating with its error cleared.
RetryStartsAsClaimed ==
  \A pageId \in 1..4 :
    Regenerate(pageId) =>
      /\ Len(retryLog') = Len(retryLog) + 1
      /\ retries' = retries \cup {retryLog'[Len(retryLog')]}
      /\ retryLog'[Len(retryLog')].pageId = pageId
      /\ retryLog'[Len(retryLog')].uid = story.uid
      /\ story'.uid = story.uid
      /\ Len(story'.pages) = Len(story.pages)
      /\ \A i \in 1..Len(story.pages) :
           IF story.pages[i].id = pageId
           THEN /\ story'.pages[i].is_generating = TRUE
                /\ story'.pages[i].error = NoError
                /\ story'.pages[i].image_url = story.pages[i].image_url
           ELSE story'.pages[i] = story.pages[i]

\* The story s shows the page pageId painted with img and no longer generating.
PagePainted(s, pageId, img) ==
  \E i \in 1..Len(s.pages) :
    /\ s.pages[i].id = pageId
    /\ s.pages[i].image_url = img
    /\ ~s.pages[i].is_generating

\* The story s shows the page pageId as failed by a retry.
PageRetryFailed(s, pageId) ==
  \E i \in 1..Len(s.pages) :
    /\ s.pages[i].id = pageId
    /\ ~s.pages[i].is_generating
    /\ s.pages[i].error = "Retry failed"

C9_SequenceResultOnlyIntoItsStory ==
  [][ \A u \in NewUids :
        (SeqResultStep(u) /\ (story = Null \/ story.uid # u)) =>
          /\ story' = story
          /\ history' = history
          /\ dbQueue' = dbQueue ]_vars

\* a run has painted its first page while a story of another uid, which has a page of
\* the same id, was displayed: the history's copy of the run's story still shows that
\* page as generating, and the displayed story does not show the run's image
C9_Witness ==
  \E u \in NewUids :
    /\ seqs[u].status # "idle"
    /\ MapHas(seqs[u].generatedImagesMap, 1)
    /\ story # Null /\ story.uid # u
    /\ FindPage(story.pages, 1) # 0
    /\ \A i \in 1..Len(story.pages) : story.pages[i].image_url # seqs[u].generatedImagesMap[1]
    /\ \E h \in 1..Len(history) :
         /\ history[h].uid = u
         /\ history[h].pages[1].is_generating

\* ---- C10
\* C10: the image a retry produced is shown only by the story the retry was made on:
\* no page of the displayed story or of a history entry of another uid holds it.
C10_RetryImageOnlyInItsStory ==
  \A k \in 1..Len(retryLog) :
    \A s \in {story} \cup SeqToSet(history) :
      \A i \in 1..Len(s.pages) :
        s.pages[i].image_url = retryLog[k].img => s.uid = retryLog[k].uid

\* ---- C11
\* C11: an update made by the sequencer for a page leaves every other page of the
\* displayed story exactly as it is (so the image and state a completed retry gave a
\* page X survive every later sequencer update for a page Y # X), and an update made
\* by a completing retry likewise leaves every page but its own as it is (so the
\* images the sequencer has set on other pages survive it).
C11_UpdatesKeepOtherPages ==
  [][ /\ \A u \in NewUids :
           (SeqResultStep(u) /\ story # Null /\ story.uid = u) =>
             /\ story'.uid = u
             /\ Len(story'.pages) = Len(story.pages)
             /\ \A i \in 1..Len(story.pages) :
                  story.pages[i].id # SeqAwaited(seqs[u]).pageId =>
                    story'.pages[i] = story.pages[i]
      /\ \A r \in retries :
           ((RetryOk(r) \/ RetryFail(r)) /\ story # Null) =>
             /\ story'.uid = story.uid
             /\ Len(story'.pages) = Len(story.pages)
             /\ \A i \in 1..Len(story.pages) :
                  story.pages[i].id # r.pageId => story'.pages[i] = story.pages[i] ]_vars

\* a retry of page X of the displayed story completed while its sequencer run was
\* going on (the save queued then shows X painted by the retry and Y still empty), and
\* the sequencer's update for Y that followed kept X as the retry left it
C11_Witness ==
  \E u \in NewUids :
    /\ story.uid = u
    /\ seqs[u].status = "awaiting"
    /\ Len(dbQueue) = 2
    /\ dbQueue[2] = story
    /\ dbQueue[1].uid = u
    /\ \E k \in 1..Len(retryLog) :
         \E i, j \in 1..Len(story.pages) :
           /\ i # j
           /\ retryLog[k].uid = u
           /\ retryLog[k] \notin retries
           /\ story.pages[i].id = retryLog[k].pageId
           /\ story.pages[i].image_url = retryLog[k].img
           /\ ~story.pages[i].is_generating
           /\ dbQueue[1].pages[i] = story.pages[i]
           /\ dbQueue[1].pages[j].image_url = NoImage
           /\ story.pages[j].image_url = SeqImage(u, story.pages[j].id)

\* ---- C12
\* Every page of s has left the generating state: it is not generating and shows an
\* image or an error.
Settled(s) ==
  \A i \in 1..Len(s.pages) :
    /\ ~s.pages[i].is_generating
    /\ s.pages[i].image_url # NoImage \/ s.pages[i].error # NoError

\* The app's copies of the story u (the displayed story and the history entry) are settled.
CopiesSettled(u) ==
  \A s \in {story} \cup SeqToSet(history) : s.uid = u => Settled(s)

\* No generatePageImage call is waiting for its result.
ImageRequestsDone == outstanding = {}

\* The first story generated in the session.
FirstNewUid == OldStory2.uid + 1

\* C12: in a behaviour in which every image request comes back (from some point on
\* none is waiting), a story generated in the session (here the first one) reaches,
\* after it was generated, a state in which every page of the app's copies of it has
\* left the generating state, whatever the user did meanwhile.
C12_EveryPageLeavesGenerating ==
  (<>[]ImageRequestsDone) =>
    [](seqs[FirstNewUid].status # "idle" => <>CopiesSettled(FirstNewUid))

\* ---- C13
\* C13: while a regeneration of a page is in flight and the story it was asked for is
\* displayed, that page is marked is_generating true.
C13_RetriedPageShownGenerating ==
  \A r \in retries :
    (story # Null /\ story.uid = r.uid) =>
      \A i \in 1..Len(story.pages) :
        story.pages[i].id = r.pageId => story.pages[i].is_generating

\* ---- C14
\* Every generatePageImage call made so far, by a sequencer run or by a retry.
AllRequests ==
  UNION {SeqToSet(seqs[u].sent) : u \in NewUids} \cup SeqToSet(retryLog)

\* Every page of a story of an earlier session that holds an image.
OldPages == {p \in SeqToSet(OldStory1.pages \o OldStory2.pages) : p.image_url # NoImage}

\* The id of the page an image was made for: by the call that returned it, or, for an
\* image of an earlier session, by the stored page that holds it.
ImagePageId(img) ==
  IF \E q \in AllRequests : q.img = img
  THEN (CHOOSE q \in AllRequests : q.img = img).pageId
  ELSE (CHOOSE p \in OldPages : p.image_url = img).id

\* The page list of the story of that uid (the ids of a story's pages never change).
PagesOf(uid) ==
  IF uid \in NewUids THEN seqs[uid].initialStory.pages
  ELSE IF uid = OldStory1.uid THEN OldStory1.pages ELSE OldStory2.pages

StoryData(s) ==
  [uid |-> s.uid, createdAt |-> s.createdAt,
   character_blueprint |-> s.character_blueprint,
   visual_style_guide |-> s.visual_style_guide,
   pages |-> [i \in 1..Len(s.pages) |->
                [id |-> s.pages[i].id, text |-> s.pages[i].text,
                 action_description |-> s.pages[i].action_description]]]

\* The story of that uid as the storyboard call returned it (or as an earlier session
\* left it in the store).
OriginalStory(uid) ==
  IF uid \in NewUids THEN seqs[uid].initialStory
  ELSE IF uid = OldStory1.uid THEN OldStory1 ELSE OldStory2

\* Every copy of a story the app holds: displayed, in the history, queued for saving
\* or stored.
StoryCopies ==
  {s \in {story} \cup SeqToSet(history) \cup SeqToSet(dbQueue) \cup SeqToSet(db) :
     s # Null}

\* C15: whatever image updates a story has gone through (sequencer success or
\* failure, retry start, success or failure), every copy of it has the pages, in the
\* order, with the ids, texts and descriptions, and the uid, createdAt, blueprint and
\* style guide it was created with; and every retry sent the description its page was
\* created with.
C15_ImageUpdatesKeepStoryData ==
  /\ \A s \in StoryCopies : StoryData(s) = StoryData(OriginalStory(s.uid))
  /\ \A k \in 1..Len(retryLog) :
       LET orig == OriginalStory(retryLog[k].uid).pages
       IN /\ FindPage(orig, retryLog[k].pageId) # 0
          /\ retryLog[k].desc = orig[FindPage(orig, retryLog[k].pageId)].action_description

\* the displayed story has had a page painted by the sequencer and another page
\* retried by the user, the retry having failed
C15_Witness ==
  \E u \in NewUids :
    /\ story.uid = u
    /\ \E i, j \in 1..Len(story.pages) :
         /\ story.pages[i].image_url = SeqImage(u, story.pages[i].id)
         /\ ~story.pages[i].is_generating
         /\ story.pages[j].error = "Retry failed"
         /\ \E k \in 1..Len(retryLog) :
              /\ retryLog[k].uid = u
              /\ retryLog[k].pageId = story.pages[j].id
              /\ retryLog[k] \notin retries

\* ---- C16
\* The storyboard call returns a storyboard in this step.
StoryboardOkStep == sbPending /\ ~sbPending' /\ generated' = generated + 1

\* C16: in the step in which the storyboard call returns a storyboard, the new story
\* becomes the displayed story with every page is_generating true, without image and
\* without error; no image request of that story was made before that step, and the
\* step itself makes exactly the request for the first page; and loading is true
\* exactly from the submission until the storyboard call returns.
C16_NewStoryShownGenerating ==
  [][ /\ StoryboardOkStep =>
           /\ story' # Null
           /\ story'.uid \in NewUids
           /\ Len(story'.pages) > 0
           /\ \A i \in 1..Len(story'.pages) :
                /\ story'.pages[i].is_generating
                /\ story'.pages[i].image_url = NoImage
                /\ story'.pages[i].error = NoError
           /\ seqs[story'.uid].status = "idle"
           /\ seqs[story'.uid].sent = <<>>
           /\ seqs'[story'.uid].initialStory = story'
           /\ Len(seqs'[story'.uid].sent) = 1
           /\ seqs'[story'.uid].sent[1].pageId = story'.pages[1].id
           /\ loading /\ ~loading'
      /\ (~sbPending /\ sbPending') => (~loading /\ loading')
      /\ loading' = sbPending' ]_vars

\* the second story of the session has just been returned: it is displayed with all
\* its pages generating, loading is off again, and its first request alone is waiting
C16_Witness ==
  /\ generated = 2
  /\ ~loading
  /\ story.uid = OldStory2.uid + 2
  /\ \A i \in 1..Len(story.pages) :
       story.pages[i].is_generating /\ story.pages[i].image_url = NoImage
  /\ seqs[story.uid].status = "awaiting"
  /\ Len(seqs[story.uid].sent) = 1
  /\ retryLog = <<>>

\* ---- C17
\* The storyboard call fails in this step.
StoryboardFailStep == sbPending /\ ~sbPending' /\ generated' = generated

\* C17: in the step in which the storyboard call fails, the displayed story and the
\* history stay as they are, no save is queued and the store is not written, no image
\* request is made and no sequencer run started, and loading goes from true to false.
C17_StoryboardFailureChangesNothing ==
  [][ StoryboardFailStep =>
        /\ story' = story
        /\ history' = history
        /\ dbQueue' = dbQueue
        /\ db' = db
        /\ seqs' = seqs
        /\ retryLog' = retryLog
        /\ retries' = retries
        /\ outstanding' = outstanding
        /\ loading /\ ~loading' ]_vars

\* the load found an empty store, a story was submitted and the storyboard call
\* failed: three steps, nothing displayed, nothing in the history, loading off
C17_Witness ==
  /\ steps = 3
  /\ loadState = "ok"
  /\ db = <<>>
  /\ generated = 0
  /\ ~sbPending
  /\ ~loading
  /\ story = Null
  /\ history = <<>>
  /\ dbQueue = <<>>
  /\ outstanding = {}

\* ---- C18
\* The text of the active mode.
ActiveText == IF mode = "Custom" THEN customText ELSE selectedTemplate.text

\* A text that is empty or holds only whitespace.
IsBlank(text) == \A i \in 1..Len(text) : text[i] \in Whitespace

\* onGenerate is called in this step.
OnGenerateStep == ~sbPending /\ sbPending'

\* C18: when the form calls onGenerate, it passes the text of the active mode (the
\* custom text in custom mode, otherwise the selected template's text) as it is,
\* with the chosen complexity and gender, and that text is not empty and not only
\* whitespace; the arguments on record change in no other step.
C18_OnGenerateGetsActiveText ==
  [][ /\ OnGenerateStep =>
           /\ onGenerateArgs' = [text |-> ActiveText, complexity |-> complexity,
                                 gender |-> gender]
           /\ ~IsBlank(ActiveText)
      /\ ~OnGenerateStep => onGenerateArgs' = onGenerateArgs ]_vars

\* a custom text with a leading blank was submitted as typed, with a complexity and a
\* gender other than the initial ones
C18_Witness ==
  /\ sbPending
  /\ mode = "Custom"
  /\ onGenerateArgs = [text |-> <<" ", "a">>, complexity |-> "Rich", gender |-> "girl"]

====
